---- MODULE Spec2Model ----
(***************************************************************************)
(* A model of wbsurfer2: the row/vertex/voxel index model of a CIFTI       *)
(* scene, the path stitching (geodesic.py, volume.py) and the movie        *)
(* pipeline (movie.py, cli.py, utils.py).                                  *)
(***************************************************************************)
EXTENDS Integers, Sequences, FiniteSets, TLC

\* ------------------------------------------------------------------------
\* Bounds of the model
\* ------------------------------------------------------------------------

\* voxel coordinates given to bresenham3d range over 0..MaxCoord on each axis
MaxCoord == 3

\* row_indices of one invocation holds at most MaxTokens rows or vertex ids
MaxTokens == 2

\* the geodesic solver returns at most MaxMid edge points between sources
\* and targets, all hops of one stitching session together
MaxMid == 2

\* a direct call of process_frames has a path of at most MaxFrames rows
MaxFrames == 3

\* loops of a direct call of process_frames ranges over 1..MaxLoops
MaxLoops == 2

\* num_cpus of a direct call of process_frames ranges over 1..MaxCpus
MaxCpus == 2

\* a row given to a direct call of a method of Scene lies at most MaxOutside
\* rows below -total_rows or above total_rows - 1
MaxOutside == 2

\* at most MaxCalls direct calls of change_connectivity_active_row on one
\* Scene object
MaxCalls == 2

\* a direct call of remove_dupicate_indices_from_path has a path of at most
\* MaxPath entries
MaxPath == 4

\* at most MaxLaunches processes are launched after one import of utils
MaxLaunches == 2

\* at most MaxExitFailures renderer processes of one invocation exit with a
\* non-zero status
MaxExitFailures == 1

\* ------------------------------------------------------------------------
\* Generic helpers
\* ------------------------------------------------------------------------

Abs(x) == IF x < 0 THEN -x ELSE x

Max2(a, b) == IF a >= b THEN a ELSE b

Max3(a, b, c) == Max2(a, Max2(b, c))

Last(s) == s[Len(s)]

\* s[::-1]
Reverse(s) == [i \in 1..Len(s) |-> s[Len(s) + 1 - i]]

\* ------------------------------------------------------------------------
\* volume.py: bresenham3d
\* ------------------------------------------------------------------------

\* a mutant of DrivingAxis: the x axis always drives
DrivingAxisAlwaysX(dx, dy, dz) == 1

\* the if/elif chain of bresenham3d that picks the driving axis a0
\* (axes are 1, 2, 3 for x, y, z)
DrivingAxis(dx, dy, dz) ==
    IF dx >= dy /\ dx >= dz THEN 1
    ELSE IF dy >= dx /\ dy >= dz THEN 2
    ELSE 3

\* the two secondary axes a1, a2 that the chain assigns with a0
SecondaryAxes(a0) ==
    IF a0 = 1 THEN <<2, 3>>
    ELSE IF a0 = 2 THEN <<1, 3>>
    ELSE <<1, 2>>

\* xs, ys, zs: 1 if (v1[a] > v0[a]) else -1
StepSign(v0, v1, a) == IF v1[a] > v0[a] THEN 1 ELSE -1

\* the body of the for loop of bresenham3d, run for the iterations left:
\* line is the array so far, p1 and p2 the two decision variables
RECURSIVE BresenhamLoop(_, _, _, _, _, _, _, _, _, _, _)
BresenhamLoop(line, left, p1, p2, d0, d1, d2, a0, a1, a2, s) ==
    IF left = 0 THEN line
    ELSE LET c0 == Last(line)
             c1 == [c0 EXCEPT ![a0] = @ + s[a0]]
             c2 == IF p1 >= 0 THEN [c1 EXCEPT ![a1] = @ + s[a1]] ELSE c1
             q1 == IF p1 >= 0 THEN p1 - 2 * d0 ELSE p1
             c3 == IF p2 >= 0 THEN [c2 EXCEPT ![a2] = @ + s[a2]] ELSE c2
             q2 == IF p2 >= 0 THEN p2 - 2 * d0 ELSE p2
         IN BresenhamLoop(Append(line, c3), left - 1, q1 + 2 * d1, q2 + 2 * d2,
                          d0, d1, d2, a0, a1, a2, s)

bresenham3d(v0, v1) ==
    LET d  == <<Abs(v1[1] - v0[1]), Abs(v1[2] - v0[2]), Abs(v1[3] - v0[3])>>
        s  == <<StepSign(v0, v1, 1), StepSign(v0, v1, 2), StepSign(v0, v1, 3)>>
        a0 == DrivingAxis(d[1], d[2], d[3])
        a1 == SecondaryAxes(a0)[1]
        a2 == SecondaryAxes(a0)[2]
    IN BresenhamLoop(<<v0>>, d[a0], 2 * d[a1] - d[a0], 2 * d[a2] - d[a0],
                     d[a0], d[a1], d[a2], a0, a1, a2, s)

\* ------------------------------------------------------------------------
\* scene.py: the coordinate tables of the CIFTI file of the scene
\* ------------------------------------------------------------------------

\* bound.stop of the last structure that iter_structures yields
None == -1

\* cifti.header.get_axis(1).iter_structures(): the structures in file order,
\* each with its half-open row range; names without "CIFTI_STRUCTURE_"
Structures ==
    << [name |-> "CORTEX_LEFT",    start |-> 0, stop |-> 3],
       [name |-> "CORTEX_RIGHT",   start |-> 3, stop |-> 5],
       [name |-> "ACCUMBENS_LEFT", start |-> 5, stop |-> 7],
       [name |-> "AMYGDALA_LEFT",  start |-> 7, stop |-> None] >>

\* get_axis(1).vertex, row r at position r + 1: the vertex id of a surface
\* row (ascending within a hemisphere, medial-wall vertices left out), -1
\* for a volume row
vertex_table == <<0, 2, 3,  1, 2,  -1, -1,  -1, -1>>

\* get_axis(1).voxel: the voxel of a volume row, (-1, -1, -1) for a surface
\* row
voxel_table ==
    << <<-1, -1, -1>>, <<-1, -1, -1>>, <<-1, -1, -1>>,
       <<-1, -1, -1>>, <<-1, -1, -1>>,
       <<0, 0, 0>>, <<2, 0, 0>>,
       <<1, 0, 0>>, <<1, 2, 0>> >>

\* cifti.shape[1]
NumRows == Len(vertex_table)

Rows == 0..(NumRows - 1)

\* the vertex ids of the surface meshes (both hemispheres' GIFTI files)
MeshVertices == 0..4

\* Scene.get_vertex_from_row
get_vertex_from_row(row) == vertex_table[row + 1]

\* a mutant of BoundContains: the upper end of the range is included
BoundContainsInclusive(s, row) ==
    LET stop == IF s.stop = None THEN NumRows ELSE s.stop
    IN s.start <= row /\ row <= stop

\* the test of the loop of get_structure_from_row, bound.stop None replaced
\* by cifti.shape[1]
BoundContains(s, row) ==
    LET stop == IF s.stop = None THEN NumRows ELSE s.stop
    IN s.start <= row /\ row < stop

\* whether the loop of get_structure_from_row ends with match = True
StructureMatch(row) == \E i \in 1..Len(Structures) : BoundContains(Structures[i], row)

\* Scene.get_structure_from_row: the first structure whose range holds row
\* (IndexError when StructureMatch is false)
get_structure_from_row(row) ==
    LET i == CHOOSE k \in 1..Len(Structures) :
                 /\ BoundContains(Structures[k], row)
                 /\ \A j \in 1..(k - 1) : ~BoundContains(Structures[j], row)
    IN Structures[i].name

Hemispheres == {"CORTEX_LEFT", "CORTEX_RIGHT"}

\* Scene.get_hemisphere_from_row returns (does not raise) for this row
HemisphereOk(row) == StructureMatch(row) /\ get_structure_from_row(row) \in Hemispheres

\* np.where(table == p)[0] is not empty
InTable(table, p) == \E i \in 1..Len(table) : table[i] = p

\* int(np.where(table == p)[0][0]): the first row of the whole table that
\* holds p (IndexError when there is none)
WhereFirst(table, p) ==
    (CHOOSE i \in 1..Len(table) :
        table[i] = p /\ \A j \in 1..(i - 1) : table[j] # p) - 1

\* np.searchsorted(a, v): the number of entries of the ascending a below v
searchsorted(a, v) == Cardinality({i \in 1..Len(a) : a[i] < v})

\* structure[2].vertex: the vertex ids of the rows of one structure
StructureVertex(s) ==
    LET stop == IF s.stop = None THEN NumRows ELSE s.stop
    IN [i \in 1..(stop - s.start) |-> vertex_table[s.start + i]]

\* ------------------------------------------------------------------------
\* geodesic.py
\* ------------------------------------------------------------------------

\* the loop of remove_dupicate_indices_from_path: last is last_vertex
RECURSIVE DedupLoop(_, _, _)
DedupLoop(path, last, nodups) ==
    IF path = <<>> THEN nodups
    ELSE IF Head(path) # last
         THEN DedupLoop(Tail(path), Head(path), Append(nodups, Head(path)))
         ELSE DedupLoop(Tail(path), last, nodups)

\* a mutant of remove_dupicate_indices_from_path: nothing is removed
KeepDuplicates(path) == path

\* remove_dupicate_indices_from_path: last_vertex = -1, then the loop
remove_dupicate_indices_from_path(path) == DedupLoop(path, -1, <<>>)

\* bmodel.Edge(index): the edges of the mesh, each with indexOfLeftVert
\* and indexOfRightVert
Edges == << [indexOfLeftVert |-> 0, indexOfRightVert |-> 1],
            [indexOfLeftVert |-> 3, indexOfRightVert |-> 4] >>

\* EdgePoint.proportion, in hundredths
Proportions == {50, 75}

\* EdgePoint: a vertex of the mesh, or a point on an edge
VertexPoint(v) == [isVertex |-> TRUE, index |-> v, proportion |-> 0]

\* the points the solver returns between the source and the target
EdgePoints ==
    {[isVertex |-> FALSE, index |-> e, proportion |-> q] :
        e \in 1..Len(Edges), q \in Proportions}

\* one step of the loop of GeodesicPath.as_nearest_index
NearestIndex(p) ==
    IF p.isVertex THEN p.index
    ELSE IF p.proportion <= 50 THEN Edges[p.index].indexOfLeftVert
    ELSE Edges[p.index].indexOfRightVert

\* GeodesicPath.as_nearest_index(path) with remove_duplicates = True
as_nearest_index(path) ==
    remove_dupicate_indices_from_path([i \in 1..Len(path) |-> NearestIndex(path[i])])

\* ------------------------------------------------------------------------
\* State
\* ------------------------------------------------------------------------

VARIABLES
    bres,            \* the last call of bresenham3d: [v0, v1, line], or <<>>
    pc,              \* where the invocation of wb_surfer2 stands
    err,             \* the exception that ended the invocation, or "none"
    args,            \* the arguments of generate_movie
    path,            \* generate_movie: the waypoint rows (local path)
    mods,            \* the path modifiers applied to path, in order
    hop,             \* stitching: the index of the next waypoint pair
    acc,             \* stitching: continuous_path / interpolated_path so far
    gpath,           \* get_continuous_path: the GeodesicPath object, or <<>>
    continuous_path, \* generate_movie: the stitched rows (local continuous_path)
    solver_points,   \* the edge points the solver returned between endpoints
    pf,              \* the parameters of process_frames, <<>> outside of it
    task,            \* process_frames: the state of each render task
    scene_files,     \* the files of tmp/scenes: <<idx, active row>>
    frame_files,     \* the files of tmp/frames: <<number, row rendered>>
    loop,            \* process_frames: the position of the copy loops
    encoder,         \* the invocations of ffmpeg: the frames each was handed
    output,          \* the file at the output path
    ffmpeg_exit,     \* the exit statuses of the invocations of ffmpeg
    scene,           \* a Scene object: the fields of its document
    probe,           \* the last direct call of a function: its input, result
    utils            \* the module utils: environment, globals, launches

stitch_vars == <<path, mods, hop, acc, gpath, continuous_path, solver_points>>

frames_vars == <<pf, task, scene_files, frame_files, loop, encoder, output,
                 ffmpeg_exit>>

unit_vars == <<scene, probe, utils>>

movie_vars == <<pc, err, args, path, mods, hop, acc, gpath, continuous_path,
                solver_points, pf, task, scene_files, frame_files, loop,
                encoder, output, ffmpeg_exit>>

vars == <<bres, pc, err, args, path, mods, hop, acc, gpath, continuous_path,
          solver_points, pf, task, scene_files, frame_files, loop, encoder,
          output, ffmpeg_exit, scene, probe, utils>>

NoArgs == <<>>

\* no invocation of wb_surfer2 has started
MovieIdle ==
    /\ pc = "idle"
    /\ err = "none"
    /\ args = NoArgs
    /\ path = <<>>
    /\ mods = <<>>
    /\ hop = 0
    /\ acc = <<>>
    /\ gpath = <<>>
    /\ continuous_path = <<>>
    /\ solver_points = 0
    /\ pf = <<>>
    /\ task = <<>>
    /\ scene_files = {}
    /\ frame_files = {}
    /\ loop = [k |-> 0, idx |-> 0]
    /\ encoder = <<>>
    /\ output = "absent"
    /\ ffmpeg_exit = <<>>

\* no Scene object is held and no function has been called directly
UnitIdle == scene = <<>> /\ probe = <<>> /\ utils = <<>>

\* ------------------------------------------------------------------------
\* Inputs
\* ------------------------------------------------------------------------

\* the command-line tokens that int() parses, the token of n at n + 1
Digits == <<"0", "1", "2", "3", "4", "5", "6", "7", "8", "9">>

\* int(token) is defined (no ValueError)
IsInt(token) == \E i \in 1..Len(Digits) : Digits[i] = token

\* int(token)
int(token) == (CHOOSE i \in 1..Len(Digits) : Digits[i] = token) - 1

\* all sequences over S of the lengths lo..hi
SeqsOf(S, lo, hi) == UNION {[1..n -> S] : n \in lo..hi}

\* the tokens of the rows of the table
RowTokens == {Digits[r + 1] : r \in Rows}

\* the tokens of the vertex ids given in vertex mode: the mesh vertices
\* and one id above them all
VertexTokens == {Digits[v + 1] : v \in MeshVertices} \cup {Digits[Len(Digits)]}

\* row_indices of an invocation in row mode
RowLists == SeqsOf(RowTokens, 1, MaxTokens)

\* row_indices of an invocation in vertex mode: the surface, then vertices
VertexLists ==
    {<<h>> \o vs : h \in Hemispheres, vs \in SeqsOf(VertexTokens, 0, MaxTokens)}

\* the border files on disk: the Structure attribute of the root and the
\* lines of the text of the Vertices node (one face, three vertices, a line);
\* text "none" is a Vertices node without text
BorderFiles ==
    [name \in {"left.border", "right.border", "empty.border"} |->
        IF name = "left.border"
          THEN [Structure |-> "CORTEX_LEFT", text |-> "lines",
                lines |-> << <<"0", "2", "3">>, <<"3", "0", "2">> >>]
        ELSE IF name = "right.border"
          THEN [Structure |-> "CORTEX_RIGHT", text |-> "lines",
                lines |-> << <<"2", "1", "2">>, <<"1", "2", "1">> >>]
        ELSE [Structure |-> "CORTEX_LEFT", text |-> "none", lines |-> <<>>]]

\* row_indices of an invocation in border-file mode
BorderLists == {<<f>> : f \in DOMAIN BorderFiles}

\* the row_indices that go with the mode flags
InputsFor(vertex_mode, border_file) ==
    IF border_file THEN BorderLists
    ELSE IF vertex_mode THEN VertexLists
    ELSE RowLists

\* Border.get_vertices: the leftmost vertex of every line
get_vertices(b) == [i \in 1..Len(b.lines) |-> b.lines[i][1]]

\* Border.data
BorderData(b) == <<b.Structure>> \o get_vertices(b)

\* ------------------------------------------------------------------------
\* cli.py: main, and a direct call of generate_movie
\* ------------------------------------------------------------------------

\* a mutant of Fail: the error is noted and the invocation ends as done
FailAsDone(e) == pc' = "done" /\ err' = e

\* an exception leaves main or generate_movie: the invocation has failed
Fail(e) == pc' = "failed" /\ err' = e

\* the print mode asked for: none, --print-rows (print_rows = True) or
\* --print-vertices (print_vertices = True); the parser of main defines
\* neither option and generate_movie has neither parameter
PrintModes == {"none", "print_rows", "print_vertices"}

\* main: parse the arguments (--closed and --reverse are one mutually
\* exclusive group, --vertex-mode and --border-file another; an option that
\* is not defined is an error of the parser), check their number and call
\* generate_movie
CliMain ==
    /\ pc = "idle"
    /\ \E closed \in BOOLEAN, reverse \in BOOLEAN,
          vertex_mode \in BOOLEAN, border_file \in BOOLEAN :
        /\ ~(closed /\ reverse)
        /\ ~(vertex_mode /\ border_file)
        /\ \E row_indices \in InputsFor(vertex_mode, border_file),
              print \in PrintModes :
            /\ args' = [via |-> "cli", row_indices |-> row_indices,
                        closed |-> closed, reverse |-> reverse,
                        vertex_mode |-> vertex_mode, border_file |-> border_file,
                        print |-> print]
            /\ IF print # "none"
                 THEN Fail("SystemExit: unrecognized arguments")
               ELSE IF Len(row_indices) < 2 /\ ~border_file
                 THEN Fail("SystemExit")
                 ELSE pc' = "generate_movie" /\ err' = err
    /\ UNCHANGED <<bres, unit_vars, stitch_vars, frames_vars>>

\* generate_movie called from Python, with any flags (a keyword that is
\* not a parameter is a TypeError)
ApiCall ==
    /\ pc = "idle"
    /\ \E closed \in BOOLEAN, reverse \in BOOLEAN,
          vertex_mode \in BOOLEAN, border_file \in BOOLEAN :
        \E row_indices \in InputsFor(vertex_mode, border_file),
           print \in PrintModes :
            /\ args' = [via |-> "api", row_indices |-> row_indices,
                        closed |-> closed, reverse |-> reverse,
                        vertex_mode |-> vertex_mode, border_file |-> border_file,
                        print |-> print]
            /\ IF print # "none"
                 THEN Fail("TypeError: unexpected keyword argument")
                 ELSE pc' = "generate_movie" /\ err' = err
    /\ UNCHANGED <<bres, unit_vars, stitch_vars, frames_vars>>

\* ------------------------------------------------------------------------
\* movie.py: generate_movie
\* ------------------------------------------------------------------------

\* the structures whose name holds surface (the list of the comprehension)
SurfaceMatches(surface) ==
    SelectSeq(Structures, LAMBDA s : s.name = surface)

\* the bounds test of vertex mode: structure[1].start <= v < structure[1].stop
VertexInBounds(structure, v) == structure.start <= v /\ v < structure.stop

\* the conversion of vertex mode: np.searchsorted(structure[2].vertex, v)
VertexToRow(structure, v) == searchsorted(StructureVertex(structure), v)

\* the row_indices after the border file is read (border_file), as given
\* otherwise
Resolved(a) ==
    IF a.border_file THEN BorderData(BorderFiles[a.row_indices[1]])
    ELSE a.row_indices

\* the waypoint rows of generate_movie: the vertex ids converted in vertex
\* mode, the rows parsed otherwise
Waypoints(a) ==
    LET row_indices == Resolved(a)
    IN IF a.vertex_mode \/ a.border_file
         THEN LET structure == SurfaceMatches(Head(row_indices))[1]
                  vs == Tail(row_indices)
              IN [i \in 1..Len(vs) |-> VertexToRow(structure, int(vs[i]))]
         ELSE [i \in 1..Len(row_indices) |-> int(row_indices[i])]

\* generate_movie up to the waypoint rows: read the border file, convert
\* vertex ids to rows in vertex mode, parse the rows otherwise
GenerateMovieResolve ==
    /\ pc = "generate_movie"
    /\ IF args.border_file /\ BorderFiles[args.row_indices[1]].text = "none"
         THEN Fail("ValueError: Border file is empty.") /\ path' = path
       ELSE LET row_indices == Resolved(args)
                vmode == args.vertex_mode \/ args.border_file
            IN IF vmode
                 THEN LET surface == Head(row_indices)
                          found == SurfaceMatches(surface)
                          vs == Tail(row_indices)
                      IN IF found = <<>>
                           THEN Fail("IndexError") /\ path' = path
                         ELSE IF \E i \in 1..Len(vs) : ~IsInt(vs[i])
                           THEN Fail("ValueError: invalid literal for int()")
                                /\ path' = path
                         ELSE IF \E i \in 1..Len(vs) :
                                   ~VertexInBounds(found[1], int(vs[i]))
                           THEN Fail("ValueError: Vertex indices are out of bounds.")
                                /\ path' = path
                         ELSE /\ path' = Waypoints(args)
                              /\ pc' = "modify"
                              /\ err' = err
                 ELSE IF \E i \in 1..Len(row_indices) : ~IsInt(row_indices[i])
                        THEN Fail("ValueError: invalid literal for int()")
                             /\ path' = path
                      ELSE /\ path' = Waypoints(args)
                           /\ pc' = "modify"
                           /\ err' = err
    /\ UNCHANGED <<bres, unit_vars, args, mods, hop, acc, gpath, continuous_path,
                   solver_points, frames_vars>>

\* a mutant of ApplyReverse: the reverse without its first entry
ApplyReverseSkipTurn(p) == p \o Tail(Reverse(p))

\* path += path[::-1]
ApplyReverse(p) == p \o Reverse(p)

\* a mutant of ApplyClosed: the last entry is appended
ApplyClosedLast(p) == Append(p, Last(p))

\* path.append(path[0])
ApplyClosed(p) == Append(p, p[1])

\* the path modifiers of generate_movie: "if closed", then "if reverse"
GenerateMovieModify ==
    /\ pc = "modify"
    /\ IF args.closed /\ path = <<>>
         THEN Fail("IndexError") /\ UNCHANGED <<path, mods>>
       ELSE LET p1 == IF args.closed THEN ApplyClosed(path) ELSE path
                m1 == IF args.closed THEN <<"closed">> ELSE <<>>
                p2 == IF args.reverse THEN ApplyReverse(p1) ELSE p1
                m2 == IF args.reverse THEN Append(m1, "reverse") ELSE m1
            IN /\ path' = p2
               /\ mods' = m2
               /\ pc' = "dispatch"
               /\ err' = err
    /\ UNCHANGED <<bres, unit_vars, args, hop, acc, gpath, continuous_path,
                   solver_points, frames_vars>>

\* generate_movie: the structure of path[0] picks the stitching function
GenerateMovieDispatch ==
    /\ pc = "dispatch"
    /\ IF path = <<>> \/ ~StructureMatch(path[1])
         THEN Fail("IndexError") /\ hop' = hop
       ELSE /\ pc' = IF get_structure_from_row(path[1]) \in Hemispheres
                       THEN "get_continuous_path"
                       ELSE "volume_interpolation"
            /\ hop' = 1
            /\ err' = err
    /\ UNCHANGED <<bres, unit_vars, args, path, mods, acc, gpath, continuous_path,
                   solver_points, frames_vars>>

\* ------------------------------------------------------------------------
\* geodesic.py: get_continuous_path
\* ------------------------------------------------------------------------

\* what GeodesicPath.path(source, target) can return: the edge points of
\* the shortest path, from the source vertex to the target vertex
SolverPaths(source, target, most) ==
    IF source = target THEN {<<VertexPoint(source)>>}
    ELSE {<<VertexPoint(source)>> \o mid \o <<VertexPoint(target)>> :
            mid \in SeqsOf(EdgePoints, 0, most)}

\* GeodesicPath.update_model: the solver runs when the source changes
update_model(g, source) ==
    IF g.current_source # source
      THEN [current_source |-> source, executed |-> Append(g.executed, source)]
      ELSE g

\* GeodesicPath.__init__: current_source = None
NewGeodesicPath == [current_source |-> None, executed |-> <<>>]

\* the test "hemisphere_1 != hemisphere_2" of get_continuous_path
CrossesHemispheres(hemisphere_1, hemisphere_2) == hemisphere_1 # hemisphere_2

\* one iteration of the loop of get_continuous_path: the hop from
\* path[hop] to path[hop + 1]
GeodesicHop ==
    /\ pc = "get_continuous_path"
    /\ hop < Len(path)
    /\ LET point_1 == path[hop]
           point_2 == path[hop + 1]
       IN IF ~StructureMatch(point_1) \/ ~StructureMatch(point_2)
            THEN Fail("IndexError") /\ UNCHANGED <<hop, acc, gpath, solver_points>>
          ELSE IF ~HemisphereOk(point_1) \/ ~HemisphereOk(point_2)
            THEN Fail("ValueError: Row index is not a hemisphere.")
                 /\ UNCHANGED <<hop, acc, gpath, solver_points>>
          ELSE IF CrossesHemispheres(get_structure_from_row(point_1),
                                     get_structure_from_row(point_2))
            THEN Fail("ValueError: Path crosses hemispheres")
                 /\ UNCHANGED <<hop, acc, gpath, solver_points>>
          ELSE LET g == IF gpath = <<>> THEN NewGeodesicPath ELSE gpath
                   vertex1 == get_vertex_from_row(point_1)
                   vertex2 == get_vertex_from_row(point_2)
               IN /\ gpath' = update_model(g, vertex1)
                  /\ \E edge_points \in SolverPaths(vertex1, vertex2,
                                                     MaxMid - solver_points) :
                        /\ acc' = acc \o as_nearest_index(edge_points)
                        /\ solver_points' =
                               solver_points + Len(edge_points)
                               - (IF vertex1 = vertex2 THEN 1 ELSE 2)
                  /\ hop' = hop + 1
                  /\ UNCHANGED <<pc, err>>
    /\ UNCHANGED <<bres, unit_vars, args, path, mods, continuous_path, frames_vars>>

\* the lookup at the end of get_continuous_path:
\* int(np.where(vertex_table == p)[0][0])
RowOfVertex(p) == WhereFirst(vertex_table, p)

\* the end of get_continuous_path: remove the duplicates, map the vertex
\* ids back to rows, return to generate_movie
GeodesicReturn ==
    /\ pc = "get_continuous_path"
    /\ hop >= Len(path)
    /\ LET nodups == remove_dupicate_indices_from_path(acc)
       IN IF \E i \in 1..Len(nodups) : ~InTable(vertex_table, nodups[i])
            THEN Fail("IndexError") /\ UNCHANGED <<acc, continuous_path>>
          ELSE /\ acc' = nodups
               /\ continuous_path' =
                      [i \in 1..Len(nodups) |-> RowOfVertex(nodups[i])]
               /\ pc' = "process_frames"
               /\ err' = err
    /\ UNCHANGED <<bres, unit_vars, args, path, mods, hop, gpath, solver_points,
                   frames_vars>>

\* ------------------------------------------------------------------------
\* volume.py: volume_interpolation
\* ------------------------------------------------------------------------

\* a mutant of ButLast: nothing of the hop is kept
KeepNone(s) == <<>>

\* interpolated[:-1]
ButLast(s) == SubSeq(s, 1, Len(s) - 1)

\* the rows of the voxels of a line that the table holds, in line order
RowsOfCoords(coords) ==
    LET kept == SelectSeq(coords, LAMBDA c : InTable(voxel_table, c))
    IN [i \in 1..Len(kept) |-> WhereFirst(voxel_table, kept[i])]

\* a mutant of CrossesStructures: the test is left out
CrossesNothing(structure_1, structure_2) == FALSE

\* the test "structure_1 != structure_2" of volume_interpolation
CrossesStructures(structure_1, structure_2) == structure_1 # structure_2

\* one iteration of the loop of volume_interpolation
VolumeHop ==
    /\ pc = "volume_interpolation"
    /\ hop < Len(path)
    /\ LET point_1 == path[hop]
           point_2 == path[hop + 1]
       IN IF ~StructureMatch(point_1) \/ ~StructureMatch(point_2)
            THEN Fail("IndexError") /\ UNCHANGED <<hop, acc>>
          ELSE IF CrossesStructures(get_structure_from_row(point_1),
                                    get_structure_from_row(point_2))
            THEN Fail("ValueError: Path crosses structures")
                 /\ UNCHANGED <<hop, acc>>
          ELSE LET coords == bresenham3d(voxel_table[point_1 + 1],
                                        voxel_table[point_2 + 1])
                   interpolated == RowsOfCoords(coords)
               IN /\ acc' = acc \o ButLast(interpolated)
                  /\ hop' = hop + 1
                  /\ UNCHANGED <<pc, err>>
    /\ UNCHANGED <<bres, unit_vars, args, path, mods, gpath, continuous_path,
                   solver_points, frames_vars>>

\* the end of volume_interpolation: append the final point and return
VolumeReturn ==
    /\ pc = "volume_interpolation"
    /\ hop >= Len(path)
    /\ acc' = Append(acc, Last(path))
    /\ continuous_path' = acc'
    /\ pc' = "process_frames"
    /\ UNCHANGED <<bres, unit_vars, err, args, path, mods, hop, gpath, solver_points,
                   frames_vars>>

\* ------------------------------------------------------------------------
\* movie.py: process_frames
\* ------------------------------------------------------------------------

\* the files of a directory that carry the number n
Numbered(files, n) == {f \in files : f[1] = n}

\* a mutant of WriteFile: every file is written under the number 0 (one
\* name shared by all the tasks)
WriteFileShared(files, n, content) ==
    (files \ Numbered(files, 0)) \cup {<<0, content>>}

\* a file <<n, content>> is written: it replaces the file of that number
WriteFile(files, n, content) == (files \ Numbered(files, n)) \cup {<<n, content>>}

\* the default of the parameter loops of generate_movie and of --loops
DefaultLoops == 1

\* the default of the parameter num_cpus of generate_movie and of --num-cpus
DefaultNumCpus == 1

\* the call process_frames(..., continuous_path, ..., loops, num_cpus) that
\* ends generate_movie, loops and num_cpus left at their defaults. The
\* locals of generate_movie are dead from here on. The temporary directory
\* is made and one task a row is queued.
ProcessFramesEnter ==
    /\ pc = "process_frames"
    /\ pf' = [path |-> continuous_path, loops |-> DefaultLoops,
              num_cpus |-> DefaultNumCpus]
    /\ task' = [i \in 1..Len(continuous_path) |-> "queued"]
    /\ pc' = "rendering"
    /\ args' = NoArgs
    /\ path' = <<>>
    /\ mods' = <<>>
    /\ hop' = 0
    /\ acc' = <<>>
    /\ gpath' = <<>>
    /\ continuous_path' = <<>>
    /\ solver_points' = 0
    /\ UNCHANGED <<bres, unit_vars, err, scene_files, frame_files, loop,
                   encoder, output, ffmpeg_exit>>

\* the rows of the paths of the direct calls of process_frames: two rows
\* of a hemisphere and a row of a volume
FrameRows == {0, 1, 5}

\* process_frames called from Python on any path, loops and num_cpus
CallProcessFrames ==
    /\ pc = "idle"
    /\ \E p \in SeqsOf(FrameRows, 0, MaxFrames),
          loops \in 1..MaxLoops, num_cpus \in 1..MaxCpus :
        /\ pf' = [path |-> p, loops |-> loops, num_cpus |-> num_cpus]
        /\ task' = [i \in 1..Len(p) |-> "queued"]
    /\ pc' = "rendering"
    /\ UNCHANGED <<bres, unit_vars, err, args, stitch_vars, scene_files,
                   frame_files, loop, encoder, output, ffmpeg_exit>>

\* the tasks in the given state
TasksIn(state) == {i \in 1..Len(task) : task[i] = state}

\* the tasks a worker holds
TasksHeld == TasksIn("taken") \cup TasksIn("running")

\* the next task in the order of the path is taken when one of the
\* num_cpus workers is free (num_cpus = 1: the built-in map takes the next
\* when the one before has returned)
TaskStart ==
    /\ pc = "rendering"
    /\ TasksIn("queued") # {}
    /\ Cardinality(TasksHeld) < pf.num_cpus
    /\ LET i == CHOOSE j \in TasksIn("queued") :
                    \A k \in TasksIn("queued") : j <= k
       IN task' = [task EXCEPT ![i] = "taken"]
    /\ UNCHANGED <<bres, unit_vars, pc, err, args, stitch_vars, pf,
                   scene_files, frame_files, loop, encoder, output,
                   ffmpeg_exit>>

\* make_new_scene_frame up to the launch of wb_command: the scene file of
\* the frame is saved with the row of the frame active
TaskScene ==
    /\ pc = "rendering"
    /\ \E i \in TasksIn("taken") :
        /\ task' = [task EXCEPT ![i] = "running"]
        /\ scene_files' = WriteFile(scene_files, i - 1, pf.path[i])
    /\ UNCHANGED <<bres, unit_vars, pc, err, args, stitch_vars, pf,
                   frame_files, loop, encoder, output, ffmpeg_exit>>

\* a mutant of SceneRow: the scene file of the highest number is read,
\* whatever n is (one scene file shared by the workers)
SceneRowOfLast(files, n) ==
    (CHOOSE f \in files : \A g \in files : g[1] <= f[1])[2]

\* the row that is active in the scene file numbered n
SceneRow(files, n) == (CHOOSE f \in Numbered(files, n) : TRUE)[2]

\* wb_command exits: with status 0 the image of the scene file of the frame
\* is written under the number of the frame; the status is returned by
\* run_process and dropped by run_wb_command, the task ends the same way
TaskFinish ==
    /\ pc = "rendering"
    /\ \E i \in TasksIn("running"), status \in {0, 1} :
        /\ status = 1 => Cardinality(TasksIn("exit 1")) < MaxExitFailures
        /\ task' = [task EXCEPT ![i] = IF status = 0 THEN "exit 0" ELSE "exit 1"]
        /\ frame_files' = IF status = 0
                            THEN WriteFile(frame_files, i - 1,
                                           SceneRow(scene_files, i - 1))
                            ELSE frame_files
    /\ UNCHANGED <<bres, unit_vars, pc, err, args, stitch_vars, pf,
                   scene_files, loop, encoder, output, ffmpeg_exit>>

\* a mutant of ExecutorExit: the executor block is left when no task is
\* waiting, without the wait for the tasks the workers hold
ExecutorExitNoWait ==
    /\ pc = "rendering"
    /\ TasksIn("queued") = {}
    /\ pc' = "looping"
    /\ loop' = [k |-> 1, idx |-> 0]
    /\ UNCHANGED <<bres, unit_vars, err, args, stitch_vars, pf, task,
                   scene_files, frame_files, encoder, output, ffmpeg_exit>>

\* every task has ended: the executor block is left, the loops start
ExecutorExit ==
    /\ pc = "rendering"
    /\ TasksIn("queued") = {}
    /\ TasksHeld = {}
    /\ pc' = "looping"
    /\ loop' = [k |-> 1, idx |-> 0]
    /\ UNCHANGED <<bres, unit_vars, err, args, stitch_vars, pf, task,
                   scene_files, frame_files, encoder, output, ffmpeg_exit>>

\* one copyfile of the loops "for _ in range(loops - 1): offset += len(path);
\* for idx in range(len(path))": frame idx is copied to frame offset + idx.
\* A missing source raises FileNotFoundError, the temporary directory goes.
LoopCopy ==
    /\ pc = "looping"
    /\ loop.k < pf.loops
    /\ Len(pf.path) > 0
    /\ LET n == Len(pf.path)
           offset == loop.k * n
           old == Numbered(frame_files, loop.idx)
       IN IF old = {}
            THEN /\ Fail("FileNotFoundError")
                 /\ scene_files' = {}
                 /\ frame_files' = {}
                 /\ loop' = loop
            ELSE /\ frame_files' =
                        WriteFile(frame_files, offset + loop.idx,
                                  (CHOOSE f \in old : TRUE)[2])
                 /\ loop' = IF loop.idx + 1 < n
                              THEN [loop EXCEPT !.idx = loop.idx + 1]
                              ELSE [k |-> loop.k + 1, idx |-> 0]
                 /\ UNCHANGED <<pc, err, scene_files>>
    /\ UNCHANGED <<bres, unit_vars, args, stitch_vars, pf, task, encoder,
                   output, ffmpeg_exit>>

\* run_ffmpeg is called on the frames directory
RunFfmpeg ==
    /\ pc = "looping"
    /\ loop.k >= pf.loops \/ Len(pf.path) = 0
    /\ encoder' = Append(encoder, frame_files)
    /\ pc' = "encoding"
    /\ UNCHANGED <<bres, unit_vars, err, args, stitch_vars, pf, task,
                   scene_files, frame_files, loop, output, ffmpeg_exit>>

\* ffmpeg exits (with no frame at all, not with status 0); the status is
\* returned by run_process and dropped by run_ffmpeg. "Movie saved" is
\* logged and the temporary directory goes.
FfmpegExit ==
    /\ pc = "encoding"
    /\ \E status \in {0, 1} :
        /\ status = 0 => Last(encoder) # {}
        /\ ffmpeg_exit' = Append(ffmpeg_exit, status)
        /\ IF status = 0
             THEN output' = "written"
             ELSE output' \in {"absent", "partial"}
    /\ pc' = "done"
    /\ scene_files' = {}
    /\ frame_files' = {}
    /\ UNCHANGED <<bres, unit_vars, err, args, stitch_vars, pf, task, loop,
                   encoder>>

\* ------------------------------------------------------------------------
\* Direct calls of Scene.get_structure_from_row,
\* Scene.change_connectivity_active_row, remove_dupicate_indices_from_path
\* ------------------------------------------------------------------------

\* the rows given to the direct calls
ProbeRows == (0 - NumRows - MaxOutside)..(NumRows - 1 + MaxOutside)

\* table[row] of numpy: a negative row counts from the end
PyIndex(row) == IF row < 0 THEN NumRows + row ELSE row

\* table[row] of numpy is defined (no IndexError)
PyIndexOk(row) == PyIndex(row) \in Rows

\* apply_affine(affine, voxel_index), the affine of the file scaling every
\* axis by two
apply_affine(ijk) == <<2 * ijk[1], 2 * ijk[2], 2 * ijk[3]>>

\* Scene.base_path: the directory of the scene file
base_path == <<"/", "study">>

\* the texts of the pathName elements of a scene file, as path components:
\* relative to the scene file, relative through the parent directory,
\* absolute
PathTexts ==
    {<<"data.nii">>, <<"..", "data.nii">>, <<"/", "study", "data.nii">>}

\* the text of an element that has none (filename.text is None)
NoText == <<>>

\* a path is absolute
IsAbsolute(p) == p # <<>> /\ p[1] = "/"

\* Path.resolve() on an absolute path: ".." components are taken out with
\* the component before them
RECURSIVE ResolveLoop(_, _)
ResolveLoop(done, rest) ==
    IF rest = <<>> THEN done
    ELSE IF Head(rest) = ".."
      THEN ResolveLoop(IF Len(done) > 1 THEN SubSeq(done, 1, Len(done) - 1)
                       ELSE done, Tail(rest))
    ELSE ResolveLoop(Append(done, Head(rest)), Tail(rest))

\* a mutant of AbsoluteText: the text is left as it is
KeepText(text) == text

\* str((self.base_path / filename.text).resolve()): joining an absolute
\* text to base_path gives the text itself
AbsoluteText(text) ==
    ResolveLoop(<<>>, IF IsAbsolute(text) THEN text ELSE base_path \o text)

\* the scene files: the text of a pathName element of the scene that is
\* selected by name (own) and of one of another scene of the file (other),
\* NoText where there is none
SceneFiles ==
    {[own |-> o, other |-> x] :
        o \in PathTexts \cup {NoText}, x \in PathTexts \cup {NoText}}

\* the scene names given to Scene: None, or the name of a scene of the file
SceneNames == {"None", "named"}

\* get_path_elements and convert_relative_to_absolute: the elements of the
\* subtree of get_scene_subtree (the whole file when the name is None, the
\* selected scene otherwise) that have a text are made absolute
ConvertedPaths(file, name) ==
    [own |-> IF file.own = NoText THEN NoText ELSE AbsoluteText(file.own),
     other |-> IF file.other = NoText \/ name # "None" THEN file.other
               ELSE AbsoluteText(file.other)]

\* the document of Scene(path, name) as loaded from a scene file: row 0
\* active; attached tells whether the ObjectArray nodes hold their Element
\* children (an array without them has no element, None here); paths are
\* the texts of the pathName elements after convert_relative_to_absolute
LoadedDoc(attached, file, name) ==
    [attached |-> attached, m_rowIndex |-> 0, m_surfaceVertexIndex |-> 0,
     m_surfaceNodeIndices |-> IF attached THEN 0 ELSE None,
     m_voxelIJK |-> IF attached THEN <<0, 0, 0>> ELSE <<None, None, None>>,
     m_volumeXYZ |-> IF attached THEN <<0, 0, 0>> ELSE <<None, None, None>>,
     m_stereotaxicXYZ |-> IF attached THEN <<0, 0, 0>>
                          ELSE <<None, None, None>>,
     m_sliceCoordinateAxial |-> 0, m_sliceCoordinateCoronal |-> 0,
     m_sliceCoordinateParasagittal |-> 0,
     paths |-> ConvertedPaths(file, name)]

\* the documents of the Scene objects as loaded
LoadedDocs ==
    {LoadedDoc(a, f, n) : a \in BOOLEAN, f \in SceneFiles, n \in SceneNames}

\* change_tuple_index_element and the Element[@Index='0'] lookup: the text
\* of an Element child is set; a child that is missing is made by
\* makeelement, which does not attach it, so the array keeps its value
SetElements(doc, old, value) == IF doc.attached THEN value ELSE old

\* the document after change_connectivity_active_row on a surface row
SurfaceDoc(doc, row, vertex_index) ==
    [doc EXCEPT !.m_rowIndex = row,
                !.m_surfaceVertexIndex = vertex_index,
                !.m_surfaceNodeIndices =
                    SetElements(doc, doc.m_surfaceNodeIndices, vertex_index)]

\* the document after change_connectivity_active_row on a volume row
VolumeDoc(doc, row, voxel_index) ==
    LET coords == apply_affine(voxel_index)
    IN [doc EXCEPT !.m_rowIndex = row,
                   !.m_voxelIJK = SetElements(doc, doc.m_voxelIJK, voxel_index),
                   !.m_volumeXYZ = SetElements(doc, doc.m_volumeXYZ, coords),
                   !.m_stereotaxicXYZ =
                       SetElements(doc, doc.m_stereotaxicXYZ, coords),
                   !.m_sliceCoordinateAxial = coords[3],
                   !.m_sliceCoordinateCoronal = coords[2],
                   !.m_sliceCoordinateParasagittal = coords[1]]

\* the exception change_connectivity_active_row(row) raises, "none" when
\* it returns: IndexError of the table lookup, ValueError of the test on
\* vertex_index and voxel_index
ActiveRowError(row) ==
    IF ~PyIndexOk(row) THEN "IndexError"
    ELSE IF /\ vertex_table[PyIndex(row) + 1] = -1
            /\ voxel_table[PyIndex(row) + 1] = <<-1, -1, -1>>
      THEN "ValueError"
    ELSE "none"

\* the document after change_connectivity_active_row(row): as it was when
\* the call raises, the fields of a surface row or of a volume row set
\* otherwise
ActiveRowDoc(doc, row) ==
    IF ActiveRowError(row) # "none" THEN doc
    ELSE IF vertex_table[PyIndex(row) + 1] # -1
      THEN SurfaceDoc(doc, row, vertex_table[PyIndex(row) + 1])
    ELSE VolumeDoc(doc, row, voxel_table[PyIndex(row) + 1])

\* a direct call of Scene.change_connectivity_active_row(row)
CallChangeConnectivityActiveRow ==
    /\ scene # <<>>
    /\ scene.calls < MaxCalls
    /\ \E row \in ProbeRows :
        /\ probe' = [op |-> "change_connectivity_active_row", row |-> row,
                     before |-> scene.doc, raised |-> ActiveRowError(row)]
        /\ scene' = [calls |-> scene.calls + 1,
                     doc |-> ActiveRowDoc(scene.doc, row)]
    /\ UNCHANGED <<bres, movie_vars, utils>>

\* a direct call of make_new_scene_frame: the Scene of the base file is
\* loaded under the scene name, the row is made active, the document is
\* saved as the scene file of the frame and wb_command is launched on it
\* (nothing is saved when change_connectivity_active_row raises)
CallMakeNewSceneFrame ==
    /\ probe = <<>>
    /\ \E a \in BOOLEAN, f \in SceneFiles, row \in Rows :
        LET new_scene == LoadedDoc(a, f, "named")
        IN
        probe' = [op |-> "make_new_scene_frame", row |-> row,
                  scene_path |-> f,
                  raised |-> ActiveRowError(row),
                  saved |-> IF ActiveRowError(row) = "none"
                              THEN <<ActiveRowDoc(new_scene, row)>>
                              ELSE <<>>]
    /\ UNCHANGED <<bres, movie_vars, scene, utils>>

\* a direct call of Scene.get_structure_from_row(row)
CallGetStructureFromRow ==
    /\ probe = <<>>
    /\ \E row \in ProbeRows :
        probe' = [op |-> "get_structure_from_row", row |-> row,
                  raised |-> IF StructureMatch(row) THEN "none"
                             ELSE "IndexError",
                  result |-> IF StructureMatch(row)
                               THEN get_structure_from_row(row)
                               ELSE "none"]
    /\ UNCHANGED <<bres, movie_vars, scene, utils>>

\* the entries of the paths of the direct calls
IndexValues == {-1, 0, 1, 2}

\* a direct call of remove_dupicate_indices_from_path(path)
CallRemoveDuplicates ==
    /\ probe = <<>>
    /\ \E p \in SeqsOf(IndexValues, 0, MaxPath) :
        probe' = [op |-> "remove_dupicate_indices_from_path", path |-> p,
                  result |-> remove_dupicate_indices_from_path(p)]
    /\ UNCHANGED <<bres, movie_vars, scene, utils>>

InitCalls ==
    /\ bres = <<>>
    /\ MovieIdle
    /\ probe = <<>>
    /\ utils = <<>>
    /\ scene \in {[calls |-> 0, doc |-> d] : d \in LoadedDocs}

NextCalls ==
    \/ CallGetStructureFromRow
    \/ CallChangeConnectivityActiveRow
    \/ CallRemoveDuplicates
    \/ CallMakeNewSceneFrame

SpecCalls == InitCalls /\ [][NextCalls]_vars

\* ------------------------------------------------------------------------
\* utils.py: find_command, WB_COMMAND, FFMPEG_COMMAND, run_wb_command,
\* run_ffmpeg
\* ------------------------------------------------------------------------

\* an environment variable that is not set, a command that is not on PATH
Unset == <<>>

\* the working directory of the process
cwd == <<"/", "home">>

\* the values of WBCOMMAND_BINARY_PATH and FFMPEG_BINARY_PATH
EnvValues == {Unset, <<"/", "opt", "bin">>, <<"tools", "bin">>}

\* what "command -v" prints for a command: nothing (exit status 1) or the
\* path of the first match on PATH
PathValues == {Unset, <<"/", "usr", "bin">>, <<"/", "usr", "local", "bin">>}

\* the environments the process can be started in
Environments ==
    {[WBCOMMAND_BINARY_PATH |-> we, FFMPEG_BINARY_PATH |-> fe,
      wb_command |-> wp, ffmpeg |-> fp] :
        we \in EnvValues, fe \in EnvValues,
        wp \in PathValues, fp \in PathValues}

\* Path(p).resolve(): a relative path is taken from the working directory
ResolvePath(p) == ResolveLoop(<<>>, IF IsAbsolute(p) THEN p ELSE cwd \o p)

\* find_command raises FileNotFoundError: the variable is not set and
\* "command -v" fails
CommandNotFound(env_value, on_path) == env_value = Unset /\ on_path = Unset

\* find_command: the value of the variable when it is set, the path found
\* on PATH otherwise, resolved
find_command(env_value, on_path) ==
    ResolvePath(IF env_value # Unset THEN env_value ELSE on_path)

\* the import of wbsurfer.utils: WB_COMMAND and FFMPEG_COMMAND are set from
\* find_command, or the import fails
ImportUtils ==
    /\ utils # <<>>
    /\ utils.stage = "start"
    /\ LET env == utils.env
       IN IF \/ CommandNotFound(env.WBCOMMAND_BINARY_PATH, env.wb_command)
             \/ CommandNotFound(env.FFMPEG_BINARY_PATH, env.ffmpeg)
            THEN utils' = [utils EXCEPT !.stage = "FileNotFoundError"]
            ELSE utils' =
                     [utils EXCEPT
                        !.stage = "imported",
                        !.WB_COMMAND =
                            find_command(env.WBCOMMAND_BINARY_PATH,
                                         env.wb_command),
                        !.FFMPEG_COMMAND =
                            find_command(env.FFMPEG_BINARY_PATH, env.ffmpeg)]
    /\ UNCHANGED <<bres, movie_vars, scene, probe>>

\* the program Popen runs for a command given by its bare name: the one
\* found on the PATH of the process (none: FileNotFoundError)
ProgramOfLiteral(on_path) == on_path

\* run_wb_command: Popen([WB_COMMAND, ...], env = {"OMP_NUM_THREADS": "1"})
CallRunWbCommand ==
    /\ utils # <<>>
    /\ utils.stage = "imported"
    /\ Len(utils.launched) < MaxLaunches
    /\ utils' = [utils EXCEPT
                   !.launched = Append(@, [by |-> "run_wb_command",
                                           program |-> utils.WB_COMMAND])]
    /\ UNCHANGED <<bres, movie_vars, scene, probe>>

\* run_ffmpeg: Popen(["ffmpeg", ...]), the name as a literal, looked up on
\* PATH when the process is made
CallRunFfmpeg ==
    /\ utils # <<>>
    /\ utils.stage = "imported"
    /\ Len(utils.launched) < MaxLaunches
    /\ utils' = [utils EXCEPT
                   !.launched = Append(@, [by |-> "run_ffmpeg",
                                           program |->
                                             ProgramOfLiteral(utils.env.ffmpeg)])]
    /\ UNCHANGED <<bres, movie_vars, scene, probe>>

InitCommands ==
    /\ bres = <<>>
    /\ MovieIdle
    /\ scene = <<>>
    /\ probe = <<>>
    /\ utils \in {[env |-> e, stage |-> "start", WB_COMMAND |-> Unset,
                   FFMPEG_COMMAND |-> Unset, launched |-> <<>>] :
                     e \in Environments}

NextCommands ==
    \/ ImportUtils
    \/ CallRunWbCommand
    \/ CallRunFfmpeg

SpecCommands == InitCommands /\ [][NextCommands]_vars

\* ------------------------------------------------------------------------
\* Specification of bresenham3d alone
\* ------------------------------------------------------------------------

Coords == 0..MaxCoord

VoxelCoords == Coords \X Coords \X Coords

InitBresenham == bres = <<>> /\ MovieIdle /\ UnitIdle

\* one call of bresenham3d on any two voxel coordinates
CallBresenham3d ==
    /\ bres = <<>>
    /\ \E v0 \in VoxelCoords, v1 \in VoxelCoords :
           bres' = [v0 |-> v0, v1 |-> v1, line |-> bresenham3d(v0, v1)]
    /\ UNCHANGED <<movie_vars, unit_vars>>

NextBresenham == CallBresenham3d

SpecBresenham == InitBresenham /\ [][NextBresenham]_vars

Init == bres = <<>> /\ MovieIdle /\ UnitIdle

Next ==
    \/ CliMain
    \/ ApiCall
    \/ GenerateMovieResolve
    \/ GenerateMovieModify
    \/ GenerateMovieDispatch
    \/ GeodesicHop
    \/ GeodesicReturn
    \/ VolumeHop
    \/ VolumeReturn
    \/ ProcessFramesEnter
    \/ TaskStart
    \/ TaskScene
    \/ TaskFinish
    \/ ExecutorExit
    \/ RunFfmpeg
    \/ FfmpegExit

\* the invocations of wb_surfer2 and of generate_movie, loops and num_cpus
\* at their defaults (no copy of the loops runs)
Spec == Init /\ [][Next]_vars

\* ------------------------------------------------------------------------
\* Specification of process_frames called directly
\* ------------------------------------------------------------------------

InitFrames == bres = <<>> /\ MovieIdle /\ UnitIdle

NextFrames ==
    \/ CallProcessFrames
    \/ TaskStart
    \/ TaskScene
    \/ TaskFinish
    \/ ExecutorExit
    \/ LoopCopy
    \/ RunFfmpeg
    \/ FfmpegExit

SpecFrames == InitFrames /\ [][NextFrames]_vars

\* ------------------------------------------------------------------------
\* Properties
\* ------------------------------------------------------------------------

\* C1: bresenham3d(v0, v1) returns a sequence that starts at v0, ends at
\* v1 and has 1 + max(|dx|, |dy|, |dz|) elements; for v0 = v1 it is <<v0>>.
C1_BresenhamEndpointsAndLength ==
    bres # <<>> =>
        /\ Len(bres.line) = 1 + Max3(Abs(bres.v1[1] - bres.v0[1]),
                                     Abs(bres.v1[2] - bres.v0[2]),
                                     Abs(bres.v1[3] - bres.v0[3]))
        /\ bres.line[1] = bres.v0
        /\ Last(bres.line) = bres.v1
        /\ (bres.v0 = bres.v1 => bres.line = <<bres.v0>>)

\* a call whose driving axis is y, with a tie between x and z and a
\* negative x step
C1_Witness ==
    /\ bres # <<>>
    /\ bres.v0 = <<2, 0, 1>>
    /\ bres.v1 = <<1, 3, 2>>
    /\ Len(bres.line) = 4

\* the stitching of path has returned to generate_movie
Stitched == pc = "process_frames"

\* every row of p lies in the structure named
AllIn(p, name) ==
    \A i \in 1..Len(p) : StructureMatch(p[i]) /\ get_structure_from_row(p[i]) = name

\* C2: when the waypoints all lie in one hemisphere, the path that
\* get_continuous_path returns starts at the first waypoint, ends at the
\* last waypoint and has every row in the span of that hemisphere.
C2_SurfacePathStaysInHemisphere ==
    \A h \in Hemispheres :
        (Stitched /\ Len(path) >= 2 /\ AllIn(path, h)) =>
            /\ continuous_path[1] = path[1]
            /\ Last(continuous_path) = Last(path)
            /\ AllIn(continuous_path, h)

\* the rows of the structure named that hold the vertex id v
RowsWithVertex(name, v) ==
    {r \in Rows : get_structure_from_row(r) = name /\ get_vertex_from_row(r) = v}

\* the surface named by an invocation in vertex mode
RequestSurface == Head(Resolved(args))

\* the vertex ids requested by an invocation in vertex mode
RequestVertices ==
    LET vs == Tail(Resolved(args)) IN [i \in 1..Len(vs) |-> int(vs[i])]

\* an invocation in vertex mode (border files included) that names a
\* hemisphere and at least one vertex id stands right after the conversion
VertexRequest ==
    /\ args # NoArgs
    /\ args.vertex_mode \/ args.border_file
    /\ Len(Resolved(args)) >= 2
    /\ RequestSurface \in Hemispheres

\* the conversion of vertex mode has returned rows
VertexAccepted == VertexRequest /\ pc = "modify"

\* the conversion of vertex mode has raised the out-of-bounds error
VertexRejected ==
    /\ VertexRequest
    /\ pc = "failed"
    /\ err = "ValueError: Vertex indices are out of bounds."

\* C3: round trip: the vertex id of every surface row r, converted back
\* within the structure that owns r by the conversion of vertex mode, gives
\* exactly r.
C3_VertexRowRoundTrip ==
    ((VertexAccepted \/ VertexRejected)
     /\ \A i \in 1..Len(RequestVertices) :
            RowsWithVertex(RequestSurface, RequestVertices[i]) # {}) =>
        /\ VertexAccepted
        /\ \A i \in 1..Len(RequestVertices) :
               path[i] \in RowsWithVertex(RequestSurface, RequestVertices[i])

\* C4: in vertex mode a vertex id that the named structure does not hold
\* raises the out-of-bounds error before stitching, and every vertex id it
\* holds is accepted.
C4_AbsentVertexRejected ==
    /\ VertexAccepted =>
           \A i \in 1..Len(RequestVertices) :
               RowsWithVertex(RequestSurface, RequestVertices[i]) # {}
    /\ VertexRejected =>
           \E i \in 1..Len(RequestVertices) :
               RowsWithVertex(RequestSurface, RequestVertices[i]) = {}

\* the first consecutive pair of p that lies in two structures, 0 if none
FirstCrossing(p) ==
    LET crossing == {i \in 1..(Len(p) - 1) :
                        /\ StructureMatch(p[i])
                        /\ StructureMatch(p[i + 1])
                        /\ get_structure_from_row(p[i])
                               # get_structure_from_row(p[i + 1])}
    IN IF crossing = {} THEN 0
       ELSE CHOOSE i \in crossing : \A j \in crossing : i <= j

\* nothing of process_frames has happened: no task, no scene or frame
\* file, no call of ffmpeg, no output
NoRendering ==
    /\ pf = <<>>
    /\ task = <<>>
    /\ scene_files = {}
    /\ frame_files = {}
    /\ encoder = <<>>
    /\ output = "absent"

\* C5: a waypoint list with a consecutive pair in two different structures
\* never leaves stitching but by an error (the stitching stands at or
\* before the crossing pair, or the invocation has failed), and nothing of
\* process_frames happens.
C5_CrossStructureFails ==
    FirstCrossing(path) # 0 =>
        /\ pc \in {"modify", "dispatch", "get_continuous_path",
                   "volume_interpolation", "failed"}
        /\ pc \in {"get_continuous_path", "volume_interpolation"} =>
               hop <= FirstCrossing(path)
        /\ pc = "failed" => err # "none"
        /\ NoRendering

\* a list of a row of one volume and a row of another has failed in
\* volume_interpolation
C5_Witness ==
    /\ pc = "failed"
    /\ err = "ValueError: Path crosses structures"
    /\ FirstCrossing(path) = 1
    /\ NoRendering

\* C6: the dense path of a waypoint list that stitches holds no two
\* adjacent equal rows.
C6_NoAdjacentEqualRows ==
    Stitched =>
        \A i \in 1..(Len(continuous_path) - 1) :
            continuous_path[i] # continuous_path[i + 1]

\* a surface list extended by reverse (its middle waypoints repeat) has
\* stitched into three rows or more
C6_Witness ==
    /\ Stitched
    /\ mods = <<"reverse">>
    /\ gpath # <<>>
    /\ \E i \in 1..(Len(path) - 1) : path[i] = path[i + 1]
    /\ Len(continuous_path) >= 3

\* the waypoint list before the reverse was appended
BeforeReverse ==
    IF args.closed THEN ApplyClosed(Waypoints(args)) ELSE Waypoints(args)

\* C7 as stated: with reverse the path handed to rendering has twice the
\* length of a dense path (an even length) and its second half is the
\* reverse of its first half.
C7_DensePathDoubled ==
    (Stitched /\ args.reverse) =>
        /\ Len(continuous_path) % 2 = 0
        /\ \A i \in 1..Len(continuous_path) :
               continuous_path[i] = continuous_path[Len(continuous_path) + 1 - i]

\* C7, amended: with reverse the waypoint list handed to stitching has
\* twice the length of the waypoint list before the modifier, starts with
\* that list, and its second half is the reverse of its first half.
C7_WaypointsDoubled ==
    (pc \in {"dispatch", "get_continuous_path", "volume_interpolation",
             "process_frames"} /\ args.reverse) =>
        /\ Len(path) = 2 * Len(BeforeReverse)
        /\ \A i \in 1..Len(BeforeReverse) :
               /\ path[i] = BeforeReverse[i]
               /\ path[Len(path) + 1 - i] = BeforeReverse[i]

\* two different waypoints with reverse have stitched: four waypoints, a
\* dense path that is not of even length
C7_Witness ==
    /\ Stitched
    /\ args.reverse
    /\ ~args.closed
    /\ Len(path) = 4
    /\ path[1] # path[2]
    /\ Len(continuous_path) % 2 = 1

\* C8: with closed the path handed to rendering ends with its first row.
C8_ClosedEndsAtStart ==
    (Stitched /\ args.closed) =>
        /\ continuous_path # <<>>
        /\ Last(continuous_path) = continuous_path[1]

\* two different waypoints with closed have stitched
C8_Witness ==
    /\ Stitched
    /\ args.closed
    /\ ~args.reverse
    /\ Len(path) = 3
    /\ path[1] # path[2]
    /\ Len(continuous_path) >= 3

\* C9: in no invocation have both the closing append and the reverse
\* append been applied to the path.
C9_ModifiersExclusive ==
    ~(\E i \in 1..Len(mods), j \in 1..Len(mods) :
          mods[i] = "closed" /\ mods[j] = "reverse")

\* C10: process_frames with loops = L on a path of n rows hands ffmpeg
\* exactly the frames numbered 0 .. L*n - 1, and the frame numbered
\* k*n + i is the same as frame i.
C10_LoopedFramesHanded ==
    pc \in {"encoding", "done"} =>
        LET n == Len(pf.path)
            handed == Last(encoder)
        IN /\ {f[1] : f \in handed} = 0..(pf.loops * n - 1)
           /\ \A f \in handed, g \in handed :
                  (f[1] < n /\ g[1] % n = f[1]) => g[2] = f[2]

\* some renderer process has exited with a non-zero status
RendererFailed == TasksIn("exit 1") # {}

\* C11: once the renderer has exited with a non-zero status for a frame,
\* the looping and encoding stages never run and no movie is produced:
\* the invocation is still rendering or has failed.
C11_RendererFailureFatal ==
    RendererFailed =>
        /\ pc \in {"rendering", "failed"}
        /\ encoder = <<>>
        /\ output = "absent"

\* some ffmpeg process has exited with a non-zero status
EncoderFailed == \E i \in 1..Len(ffmpeg_exit) : ffmpeg_exit[i] # 0

\* C12: when ffmpeg has exited with a non-zero status the invocation has
\* ended in failure, not with the movie reported as saved.
C12_EncoderFailureFatal ==
    EncoderFailed => (pc = "failed" /\ err # "none")

\* C13: under every scheduling of the render tasks, the scene file and the
\* frame file numbered i hold row path[i], a frame copied by the loops
\* holds the row of its position in the path, and so do the frames handed
\* to ffmpeg.
C13_FramesByPosition ==
    pf # <<>> =>
        LET n == Len(pf.path)
            handed == UNION {encoder[i] : i \in 1..Len(encoder)}
        IN /\ \A f \in scene_files :
                  f[1] \in 0..(n - 1) /\ f[2] = pf.path[f[1] + 1]
           /\ \A f \in frame_files \cup handed :
                  /\ f[1] \in 0..(pf.loops * n - 1)
                  /\ f[2] = pf.path[(f[1] % n) + 1]

\* two workers: the second task has ended before the first, whose row
\* differs
C13_Witness ==
    /\ pc = "rendering"
    /\ pf.num_cpus = 2
    /\ Len(pf.path) >= 2
    /\ pf.path[1] # pf.path[2]
    /\ task[1] = "running"
    /\ task[2] = "exit 0"
    /\ frame_files = {<<1, pf.path[2]>>}

\* the names of the volumetric structures
Volumes == {Structures[i].name : i \in 1..Len(Structures)} \ Hemispheres

\* volume_interpolation has returned the dense path of a waypoint list
\* that lies in one volumetric structure
VolumeStitched ==
    /\ Stitched
    /\ path # <<>>
    /\ \E v \in Volumes : AllIn(path, v)

\* no two consecutive entries of p are equal
NoRepeat(p) == \A i \in 1..(Len(p) - 1) : p[i] # p[i + 1]

\* C14 as stated: for a waypoint list in one volumetric structure,
\* volume_interpolation returns rows that start with the first waypoint,
\* end with the last and are at least as many as the waypoints.
C14_VolumePathEndsAndLength ==
    VolumeStitched =>
        /\ continuous_path[1] = path[1]
        /\ Last(continuous_path) = Last(path)
        /\ Len(continuous_path) >= Len(path)

\* C14, amended: the rows start with the first waypoint and end with the
\* last; they are at least as many as the waypoints when no two
\* consecutive waypoints are equal.
C14_VolumePathEndsAndLengthNoRepeat ==
    VolumeStitched =>
        /\ continuous_path[1] = path[1]
        /\ Last(continuous_path) = Last(path)
        /\ NoRepeat(path) => Len(continuous_path) >= Len(path)

\* a pair of different rows of one volumetric structure has been
\* interpolated
C14_Witness ==
    /\ VolumeStitched
    /\ Len(path) = 2
    /\ path[1] # path[2]
    /\ Len(continuous_path) >= 2

\* a print mode was asked for
PrintRequested == args # NoArgs /\ args.print # "none"

\* C15: an invocation in print-rows or print-vertices mode stops after
\* stitching: it is not refused for its print option, and nothing of
\* process_frames happens.
C15_PrintModeStopsAfterStitching ==
    PrintRequested =>
        /\ ~(pc = "failed"
             /\ err \in {"SystemExit: unrecognized arguments",
                         "TypeError: unexpected keyword argument"})
        /\ NoRendering

\* the stitching function is running
Stitching == pc \in {"get_continuous_path", "volume_interpolation"}

\* C16: stitching only ever runs on an invocation whose waypoint list holds
\* at least two rows once resolved (at least one with a border file).
C16_StitchingNeedsTwoWaypoints ==
    Stitching =>
        Len(Waypoints(args)) >= (IF args.border_file THEN 1 ELSE 2)

\* the rows of the span [start, stop) of a structure, an open stop being
\* the number of rows
Span(s) == s.start..((IF s.stop = None THEN NumRows ELSE s.stop) - 1)

\* get_structure_from_row has been called directly
StructureProbed == probe # <<>> /\ probe.op = "get_structure_from_row"

\* C17: get_structure_from_row(row) returns a name if and only if
\* 0 <= row < total_rows, the name is that of the one span holding row,
\* and for any other row (negative or too large) it raises IndexError.
C17_StructureOfRowDefinedInRange ==
    StructureProbed =>
        /\ probe.raised = "none" <=> probe.row \in 0..(NumRows - 1)
        /\ probe.raised # "none" => probe.raised = "IndexError"
        /\ probe.raised = "none" =>
               \E k \in 1..Len(Structures) :
                   /\ probe.row \in Span(Structures[k])
                   /\ probe.result = Structures[k].name
                   /\ \A j \in 1..Len(Structures) :
                          j # k => probe.row \notin Span(Structures[j])

\* the first row of the second span was asked for and its name returned
C17_Witness ==
    /\ StructureProbed
    /\ probe.row = Structures[2].start
    /\ probe.raised = "none"
    /\ probe.result = "CORTEX_RIGHT"

\* change_connectivity_active_row has been called directly
ActiveRowProbed ==
    probe # <<>> /\ probe.op = "change_connectivity_active_row"

\* the row is a row of the file with a valid vertex or a valid voxel
ResolvesToVertexOrVoxel(row) ==
    /\ row \in Rows
    /\ \/ vertex_table[row + 1] # -1
       \/ voxel_table[row + 1] # <<-1, -1, -1>>

\* C18: change_connectivity_active_row(row) raises whenever row resolves
\* to neither a valid vertex nor a valid voxel, every row outside
\* [0, total_rows) included, and a call that raises has changed no field
\* of the scene document.
C18_InvalidRowRaisesUnchanged ==
    ActiveRowProbed =>
        /\ ~ResolvesToVertexOrVoxel(probe.row) => probe.raised # "none"
        /\ probe.raised # "none" => scene.doc = probe.before

\* remove_dupicate_indices_from_path has been called directly
DuplicatesProbed ==
    probe # <<>> /\ probe.op = "remove_dupicate_indices_from_path"

\* the entries of p that differ from their immediate predecessor, the first
\* entry among them, in the order of p
WithoutRepeats(p) ==
    LET F[i \in 0..Len(p)] ==
            IF i = 0 THEN <<>>
            ELSE IF i = 1 \/ p[i] # p[i - 1] THEN Append(F[i - 1], p[i])
            ELSE F[i - 1]
    IN F[Len(p)]

\* C19: remove_dupicate_indices_from_path returns its input without the
\* entries equal to their immediate predecessor: the first entry is always
\* kept and the order of the kept entries is that of the input.
C19_OnlyAdjacentRepeatsRemoved ==
    DuplicatesProbed => probe.result = WithoutRepeats(probe.path)

\* some stage of the invocation has failed: an error was raised, or a
\* renderer or ffmpeg process exited with a non-zero status
InvocationFailed == pc = "failed" \/ RendererFailed \/ EncoderFailed

\* C20: whenever an invocation fails at any stage, no video file, complete
\* or partial, written by it is at the output location.
C20_FailureLeavesNoVideo == InvocationFailed => output = "absent"

\* the position of a stage in the order of the code: the modifiers, the
\* choice of the stitching function, stitching, rendering, looping,
\* encoding
StageRank(p) ==
    CASE p = "idle" -> 0
      [] p = "generate_movie" -> 1
      [] p = "modify" -> 2
      [] p = "dispatch" -> 3
      [] p \in {"get_continuous_path", "volume_interpolation"} -> 4
      [] p = "process_frames" -> 5
      [] p = "rendering" -> 6
      [] p = "looping" -> 7
      [] p = "encoding" -> 8
      [] p = "done" -> 9
      [] p = "failed" -> 10

\* C23: an invocation passes through Stitching, Modifying, Rendering in
\* this order: the modifiers are applied to the stitched path, so the
\* stage of the modifiers is entered with a stitched path, and nothing has
\* been modified while stitching runs.
C23_ModifiersAfterStitching ==
    /\ pc = "modify" => continuous_path # <<>>
    /\ Stitching => mods = <<>>

\* C23, amended: the stages follow each other in the order Modifying,
\* Stitching, Rendering, Looping, Encoding, Done, none skipped and none run
\* twice; a stage is left only for the next one or for Failed, and Failed
\* and Done are never left.
C23_StagesInCodeOrder ==
    [][/\ pc \in {"failed", "done"} => pc' = pc
       /\ (pc' # pc /\ pc' # "failed") => StageRank(pc') = StageRank(pc) + 1]_vars

\* the modifiers have been applied and the doubled waypoint list has been
\* stitched
C23_Witness ==
    /\ pc = "process_frames"
    /\ mods = <<"reverse">>
    /\ Len(path) = 4
    /\ Len(continuous_path) >= 3

\* the tasks whose wb_command has been launched
Launched == TasksIn("running") \cup TasksIn("exit 0") \cup TasksIn("exit 1")

\* C24: for a path of n rows and any loops >= 1 there is one render task
\* for each path position and none for the loop repeats, so wb_command has
\* been launched n times when rendering is over; ffmpeg is invoked once,
\* and when it is invoked the loops * n frames exist.
C24_RenderedOnceEncodedOnce ==
    pf # <<>> =>
        LET n == Len(pf.path)
        IN /\ Len(task) = n
           /\ pc \in {"looping", "encoding", "done"} =>
                  Cardinality(Launched) = n
           /\ Len(encoder) <= 1
           /\ pc = "done" => Len(encoder) = 1
           /\ encoder # <<>> => Cardinality(encoder[1]) = pf.loops * n

\* the render tasks that have not ended: waiting, taken by a worker or
\* with wb_command running
TasksPending == TasksIn("queued") \cup TasksHeld

\* a frame has been copied by the loops: a frame file carries a number
\* beyond those of the path
CopyMade == \E f \in frame_files : f[1] >= Len(pf.path)

\* C25: for any num_cpus, no copy of the loops is made and ffmpeg is not
\* invoked until every render task has ended: while a task is waiting or
\* running, the invocation is in the render region, no frame has been
\* copied and ffmpeg has not been invoked.
C25_RenderBarrier ==
    (pf # <<>> /\ TasksPending # {}) =>
        /\ pc = "rendering"
        /\ ~CopyMade
        /\ loop = [k |-> 0, idx |-> 0]
        /\ encoder = <<>>

\* two workers have rendered two frames and the loops have copied the
\* first of them
C25_Witness ==
    /\ pc = "looping"
    /\ pf.num_cpus = 2
    /\ Len(pf.path) = 2
    /\ pf.loops = 2
    /\ TasksPending = {}
    /\ CopyMade

\* C26: no two render tasks write the same scene file or the same image
\* file, and a file holds what its own task wrote: while the tasks run
\* there is one scene file for each task that has saved its scene and one
\* image for each task whose wb_command has exited with status 0, each
\* under the number of the path position of its task and with its row.
C26_TasksWriteOwnFiles ==
    (pf # <<>> /\ pc = "rendering") =>
        /\ Cardinality(scene_files) = Cardinality(Launched)
        /\ Cardinality(frame_files) = Cardinality(TasksIn("exit 0"))
        /\ \A i \in Launched :
               Numbered(scene_files, i - 1) = {<<i - 1, pf.path[i]>>}
        /\ \A i \in TasksIn("exit 0") :
               Numbered(frame_files, i - 1) = {<<i - 1, pf.path[i]>>}

\* two workers render the same row at the same time, each from a scene
\* file of its own
C26_Witness ==
    /\ pc = "rendering"
    /\ pf.num_cpus = 2
    /\ Len(pf.path) >= 2
    /\ pf.path[1] = pf.path[2]
    /\ task[1] = "running"
    /\ task[2] = "running"
    /\ Cardinality(scene_files) = 2

\* C27: within one stitching session the geodesic solver is executed at
\* most once for each source vertex: no vertex occurs twice among the
\* sources the solver of the session has been executed for.
C27_SolverOncePerSource ==
    gpath # <<>> =>
        \A i \in 1..Len(gpath.executed), j \in 1..Len(gpath.executed) :
            gpath.executed[i] = gpath.executed[j] => i = j

\* C28: every row of the dense path that volume_interpolation returns
\* lies in the structure of the waypoints (the waypoints of a stitched
\* volume path all lie in one structure): no row of another structure
\* that the line passes through is emitted.
C28_VolumePathStaysInStructure ==
    VolumeStitched =>
        \A i \in 1..Len(continuous_path) :
            /\ StructureMatch(continuous_path[i])
            /\ get_structure_from_row(continuous_path[i])
                   = get_structure_from_row(path[1])

\* the entries of w occur in d in the order of w (w is a subsequence of d)
RECURSIVE Subsequence(_, _)
Subsequence(w, d) ==
    IF w = <<>> THEN TRUE
    ELSE IF d = <<>> THEN FALSE
    ELSE IF Head(w) = Head(d) THEN Subsequence(Tail(w), Tail(d))
    ELSE Subsequence(w, Tail(d))

\* C30: the dense path of a waypoint list without equal consecutive
\* waypoints, surface or volume, starts at the first waypoint, ends at the
\* last, holds the waypoint rows as a subsequence in waypoint order, and
\* holds no row twice in a row (the waypoint shared by two hops appears
\* once).
C30_DensePathThroughWaypoints ==
    (Stitched /\ path # <<>> /\ NoRepeat(path)) =>
        /\ continuous_path # <<>>
        /\ continuous_path[1] = path[1]
        /\ Last(continuous_path) = Last(path)
        /\ Subsequence(path, continuous_path)
        /\ NoRepeat(continuous_path)

\* C30 for volume stitching alone
VolumeThroughWaypoints == VolumeStitched => C30_DensePathThroughWaypoints

\* C30 for the waypoint lists of the left hemisphere alone
LeftThroughWaypoints ==
    (AllIn(path, "CORTEX_LEFT") /\ Len(path) >= 2) =>
        C30_DensePathThroughWaypoints

\* change_connectivity_active_row has returned for a surface row of the
\* file
SurfaceRowActivated ==
    /\ ActiveRowProbed
    /\ probe.raised = "none"
    /\ probe.row \in Rows
    /\ vertex_table[probe.row + 1] # -1

\* C29: after change_connectivity_active_row(row) for a surface row the
\* document holds row in its active-row field, vertex[row] in its
\* active-vertex field and vertex[row] as element 0 of its surface node
\* index array, also when the array had no element 0 before the call.
C29_SurfaceFieldsSet ==
    SurfaceRowActivated =>
        /\ scene.doc.m_rowIndex = probe.row
        /\ scene.doc.m_surfaceVertexIndex = vertex_table[probe.row + 1]
        /\ scene.doc.m_surfaceNodeIndices = vertex_table[probe.row + 1]

\* C29 for the documents whose arrays hold their elements
SurfaceFieldsSetWhenAttached ==
    (SurfaceRowActivated /\ scene.doc.attached) => C29_SurfaceFieldsSet

\* the text of a pathName element is an absolute path, if it is a path
AbsoluteOrNone(text) ==
    text = NoText
    \/ (IsAbsolute(text) /\ \A i \in 1..Len(text) : text[i] # "..")

\* make_new_scene_frame has been called directly and has saved the scene
\* file of the frame
FrameSaved ==
    probe # <<>> /\ probe.op = "make_new_scene_frame" /\ probe.saved # <<>>

\* the paths of the selected scene are absolute in every Scene object, a
\* call of change_connectivity_active_row leaves the paths as they are,
\* and the paths of the selected scene are absolute in the saved scene
\* file of a frame
SelectedScenePathsAbsolute ==
    /\ scene # <<>> => AbsoluteOrNone(scene.doc.paths.own)
    /\ ActiveRowProbed => scene.doc.paths = probe.before.paths
    /\ FrameSaved => AbsoluteOrNone(probe.saved[1].paths.own)

\* C21: the data-file paths of a loaded Scene are absolute, activating a
\* row does not change them, and the scene file that make_new_scene_frame
\* saves for a frame holds only absolute data-file paths.
C21_PersistedPathsAbsolute ==
    /\ SelectedScenePathsAbsolute
    /\ FrameSaved =>
           /\ AbsoluteOrNone(probe.saved[1].paths.own)
           /\ AbsoluteOrNone(probe.saved[1].paths.other)

\* what find_command resolved at the import for the command a launch is
\* made by
ResolvedAtImport(by) ==
    IF by = "run_wb_command" THEN utils.WB_COMMAND ELSE utils.FFMPEG_COMMAND

\* C22: every process is launched with the path that find_command
\* resolved at the import (the value of the environment variable when it
\* is set, the path found on PATH otherwise), and nothing is launched when
\* find_command has raised FileNotFoundError.
C22_LaunchesUseResolvedCommands ==
    utils # <<>> =>
        /\ utils.stage # "imported" => utils.launched = <<>>
        /\ \A i \in 1..Len(utils.launched) :
               utils.launched[i].program
                   = ResolvedAtImport(utils.launched[i].by)

\* C22 for the launches of the renderer alone
RendererUsesResolvedCommand ==
    utils # <<>> =>
        /\ utils.stage # "imported" => utils.launched = <<>>
        /\ utils.stage = "imported" =>
               /\ utils.WB_COMMAND
                      = ResolvePath(IF utils.env.WBCOMMAND_BINARY_PATH # Unset
                                      THEN utils.env.WBCOMMAND_BINARY_PATH
                                      ELSE utils.env.wb_command)
               /\ IsAbsolute(utils.WB_COMMAND)
        /\ \A i \in 1..Len(utils.launched) :
               utils.launched[i].by = "run_wb_command" =>
                   utils.launched[i].program = utils.WB_COMMAND

====
